---- MODULE Spec2Model ----
(***************************************************************************)
(* YTtranscript: the identifier extractor (extract_video_id, in both       *)
(* download_subtitles.py and get_transcript.py) and the transcript         *)
(* selector (fetch_transcript_data / get_transcript_text) with the main    *)
(* functions that call them.                                               *)
(*                                                                         *)
(* URLs are strings; a character of a string s is SubSeq(s, i, i).  The    *)
(* query is percent-decoded as parse_qs does, and tab, CR and LF are       *)
(* dropped as urlparse does.  The URL inputs contain no ';' and no leading *)
(* whitespace, so urlparse's parameter splitting and stripping do not act. *)
(***************************************************************************)
EXTENDS Integers, Sequences, FiniteSets, TLC

(***************************************************************************)
(* Bounds of the model and program constants.                              *)
(***************************************************************************)
MaxTranscripts == 2
IdLen == 11

(***************************************************************************)
(* String helpers (Python str methods used by the source).                 *)
(***************************************************************************)
Upper == {"A","B","C","D","E","F","G","H","I","J","K","L","M",
          "N","O","P","Q","R","S","T","U","V","W","X","Y","Z"}
Lower == {"a","b","c","d","e","f","g","h","i","j","k","l","m",
          "n","o","p","q","r","s","t","u","v","w","x","y","z"}
Digit == {"0","1","2","3","4","5","6","7","8","9"}

\* the identifier class without '_' and '-'
IdChars_alphanumeric == Upper \cup Lower \cup Digit

IdChars == Upper \cup Lower \cup Digit \cup {"_", "-"}
SchemeChars == Upper \cup Lower \cup Digit \cup {"+", "-", "."}

Min(S) == CHOOSE x \in S : \A y \in S : x <= y

CharAt(s, i) == SubSeq(s, i, i)

From(s, i) == SubSeq(s, i, Len(s))

\* str.find for a single character or a set of them: the first index, 0 if none.
FindAny(s, cs) ==
    LET I == {i \in 1..Len(s) : CharAt(s, i) \in cs}
    IN IF I = {} THEN 0 ELSE Min(I)

StartsWithAt(s, pat, i) ==
    /\ i + Len(pat) - 1 <= Len(s)
    /\ SubSeq(s, i, i + Len(pat) - 1) = pat

EndsWith(s, suffix) ==
    /\ Len(suffix) <= Len(s)
    /\ From(s, Len(s) - Len(suffix) + 1) = suffix

RECURSIVE Split(_, _)
Split(s, sep) ==
    LET i == FindAny(s, {sep})
    IN IF i = 0 THEN <<s>>
       ELSE <<SubSeq(s, 1, i - 1)>> \o Split(From(s, i + 1), sep)

\* str.split(sep, 1)
Split1(s, sep) ==
    LET i == FindAny(s, {sep})
    IN IF i = 0 THEN <<s>> ELSE <<SubSeq(s, 1, i - 1), From(s, i + 1)>>

RECURSIVE StripSlashes(_)
StripSlashes(s) ==
    IF s = "" THEN s
    ELSE IF CharAt(s, 1) = "/" THEN StripSlashes(From(s, 2))
    ELSE IF CharAt(s, Len(s)) = "/" THEN StripSlashes(SubSeq(s, 1, Len(s) - 1))
    ELSE s

NonEmpty(part) == part # ""

(***************************************************************************)
(* urllib.parse.urlparse and parse_qs, as far as the source reads them:    *)
(* netloc, path and query of the URL, and the first non-blank value of a   *)
(* query parameter.                                                        *)
(***************************************************************************)
RECURSIVE Remove(_, _)
\* s with every character of cs removed
Remove(s, cs) ==
    LET i == FindAny(s, cs)
    IN IF i = 0 THEN s ELSE SubSeq(s, 1, i - 1) \o Remove(From(s, i + 1), cs)

\* urlsplit drops tab, carriage return and line feed from the URL it parses
UnsafeUrlChars == {"\t", "\r", "\n"}

\* scheme, netloc, path, query and fragment of a URL; the scheme and the
\* fragment are not read by the source
urlsplit(url) ==
    LET colon == FindAny(url, {":"})
        hasScheme == /\ colon > 1
                     /\ CharAt(url, 1) \in Upper \cup Lower
                     /\ \A i \in 1..(colon - 1) : CharAt(url, i) \in SchemeChars
        rest == IF hasScheme THEN From(url, colon + 1) ELSE url
        hasNetloc == StartsWithAt(rest, "//", 1)
        afterSlashes == From(rest, 3)
        delim == FindAny(afterSlashes, {"/", "?", "#"})
        netloc == IF ~hasNetloc THEN ""
                  ELSE IF delim = 0 THEN afterSlashes
                  ELSE SubSeq(afterSlashes, 1, delim - 1)
        rest2 == IF ~hasNetloc THEN rest
                 ELSE IF delim = 0 THEN ""
                 ELSE From(afterSlashes, delim)
        noFragment == Split1(rest2, "#")[1]
        pq == Split1(noFragment, "?")
    IN [netloc |-> netloc,
        path   |-> pq[1],
        query  |-> IF Len(pq) = 2 THEN pq[2] ELSE ""]

urlparse(raw_url) == urlsplit(Remove(raw_url, UnsafeUrlChars))

\* The characters of code points 32..95 and 97..126, in order.
AsciiLow == " !\"#$%&'()*+,-./0123456789:;<=>?@ABCDEFGHIJKLMNOPQRSTUVWXYZ[\\]^_"
AsciiHigh == "abcdefghijklmnopqrstuvwxyz{|}~"

HexDigits == "0123456789ABCDEF"
HexDigitsLower == "0123456789abcdef"

IsHex(c) == FindAny(HexDigits, {c}) > 0 \/ FindAny(HexDigitsLower, {c}) > 0

HexVal(c) ==
    IF FindAny(HexDigits, {c}) > 0 THEN FindAny(HexDigits, {c}) - 1
    ELSE FindAny(HexDigitsLower, {c}) - 1

\* The character a decoded byte stands for.  The backquote (96) and the bytes
\* outside 32..126 other than tab, line feed and carriage return are all
\* written as form feed: they are outside every character class the code
\* tests.
ByteChar(n) ==
    IF n >= 32 /\ n <= 95 THEN CharAt(AsciiLow, n - 31)
    ELSE IF n >= 97 /\ n <= 126 THEN CharAt(AsciiHigh, n - 96)
    ELSE IF n = 9 THEN "\t"
    ELSE IF n = 10 THEN "\n"
    ELSE IF n = 13 THEN "\r"
    ELSE "\f"

RECURSIVE unquote(_)
\* urllib.parse.unquote: every %XX escape replaced by the character it encodes
unquote(s) ==
    LET i == FindAny(s, {"%"})
    IN IF i = 0 THEN s
       ELSE IF /\ i + 2 <= Len(s)
               /\ IsHex(CharAt(s, i + 1)) /\ IsHex(CharAt(s, i + 2))
       THEN SubSeq(s, 1, i - 1)
            \o ByteChar(16 * HexVal(CharAt(s, i + 1)) + HexVal(CharAt(s, i + 2)))
            \o unquote(From(s, i + 3))
       ELSE SubSeq(s, 1, i) \o unquote(From(s, i + 1))

RECURSIVE PlusToSpace(_)
\* s.replace('+', ' ')
PlusToSpace(s) ==
    LET i == FindAny(s, {"+"})
    IN IF i = 0 THEN s ELSE SubSeq(s, 1, i - 1) \o " " \o PlusToSpace(From(s, i + 1))

\* parse_qs(query)[name] as a list: the decoded non-blank values of the pairs
\* whose decoded name is `name`, in order (keep_blank_values is False, pairs
\* without '=' are dropped; '+' stands for a space, %XX for a byte).
parse_qs_values(query, name) ==
    LET pairs == Split(query, "&")
        IsHit(pair) == LET nv == Split1(pair, "=")
                       IN /\ Len(nv) = 2
                          /\ unquote(PlusToSpace(nv[1])) = name
                          /\ nv[2] # ""
        hits == SelectSeq(pairs, IsHit)
    IN [i \in 1..Len(hits) |-> unquote(PlusToSpace(Split1(hits[i], "=")[2]))]

\* [part for part in parsed.path.split("/") if part]
path_parts_of(path) == SelectSeq(Split(path, "/"), NonEmpty)

(***************************************************************************)
(* VIDEO_ID_PATTERN = re.compile(r"[A-Za-z0-9_-]{11}")                      *)
(***************************************************************************)
AllIdChars(s) == \A i \in 1..Len(s) : CharAt(s, i) \in IdChars

VIDEO_ID_PATTERN_fullmatch(s) == Len(s) = IdLen /\ AllIdChars(s)

\* The start of the leftmost match of the pattern in s, 0 if there is none.
VIDEO_ID_PATTERN_search(s) ==
    LET I == {i \in 1..(Len(s) - IdLen + 1) : AllIdChars(SubSeq(s, i, i + IdLen - 1))}
    IN IF I = {} THEN 0 ELSE Min(I)

\* A function's outcome: a returned value or a raised exception class.
Return(v) == [raised |-> "", value |-> v]
Raise(kind) == [raised |-> kind, value |-> ""]

(***************************************************************************)
(* download_subtitles.extract_video_id: each rule yields a candidate id,   *)
(* or "" when the rule does not apply.                                     *)
(***************************************************************************)
\* if parsed.netloc.endswith("youtu.be"): first segment of the stripped path
ds_short_link(url) ==
    LET parsed == urlparse(url)
        candidate == Split(StripSlashes(parsed.path), "/")[1]
    IN IF EndsWith(parsed.netloc, "youtu.be") /\ VIDEO_ID_PATTERN_fullmatch(candidate)
       THEN candidate ELSE ""

\* the query rule without the pattern test
ds_query_v_unchecked(url) ==
    LET vs == parse_qs_values(urlparse(url).query, "v")
    IN IF Len(vs) = 0 THEN "" ELSE vs[1]

\* query_id = parse_qs(parsed.query).get("v", [""])[0]
ds_query_v(url) ==
    LET vs == parse_qs_values(urlparse(url).query, "v")
        query_id == IF Len(vs) = 0 THEN "" ELSE vs[1]
    IN IF VIDEO_ID_PATTERN_fullmatch(query_id) THEN query_id ELSE ""

\* path_parts[0] in {"watch", "live", "shorts"} and path_parts[1] matches
ds_path_segment(url) ==
    LET path_parts == path_parts_of(urlparse(url).path)
    IN IF /\ Len(path_parts) >= 2
          /\ path_parts[1] \in {"watch", "live", "shorts"}
          /\ VIDEO_ID_PATTERN_fullmatch(path_parts[2])
       THEN path_parts[2] ELSE ""

\* match = VIDEO_ID_PATTERN.search(url)
ds_search(url) ==
    LET i == VIDEO_ID_PATTERN_search(url)
    IN IF i = 0 THEN "" ELSE SubSeq(url, i, i + IdLen - 1)

extract_video_id_swapped(url) ==
    IF ds_query_v(url) # "" THEN Return(ds_query_v(url))
    ELSE IF ds_short_link(url) # "" THEN Return(ds_short_link(url))
    ELSE IF ds_path_segment(url) # "" THEN Return(ds_path_segment(url))
    ELSE IF ds_search(url) # "" THEN Return(ds_search(url))
    ELSE Raise("ValueError")

extract_video_id(url) ==
    IF ds_short_link(url) # "" THEN Return(ds_short_link(url))
    ELSE IF ds_query_v(url) # "" THEN Return(ds_query_v(url))
    ELSE IF ds_path_segment(url) # "" THEN Return(ds_path_segment(url))
    ELSE IF ds_search(url) # "" THEN Return(ds_search(url))
    ELSE Raise("ValueError")

(***************************************************************************)
(* get_transcript.extract_video_id                                         *)
(***************************************************************************)
\* if "v" in qs and qs["v"]: vid = qs["v"][0]
gt_query_v(url) ==
    LET vs == parse_qs_values(urlparse(url).query, "v")
    IN IF Len(vs) > 0 /\ VIDEO_ID_PATTERN_fullmatch(vs[1]) THEN vs[1] ELSE ""

\* if parsed.netloc.endswith("youtu.be") and path_parts: cand = path_parts[0]
gt_short_link(url) ==
    LET parsed == urlparse(url)
        path_parts == path_parts_of(parsed.path)
    IN IF /\ EndsWith(parsed.netloc, "youtu.be")
          /\ Len(path_parts) >= 1
          /\ VIDEO_ID_PATTERN_fullmatch(path_parts[1])
       THEN path_parts[1] ELSE ""

\* path_parts[0] in ("live", "shorts")
gt_path_segment(url) ==
    LET path_parts == path_parts_of(urlparse(url).path)
    IN IF /\ Len(path_parts) >= 2
          /\ path_parts[1] \in {"live", "shorts"}
          /\ VIDEO_ID_PATTERN_fullmatch(path_parts[2])
       THEN path_parts[2] ELSE ""

\* re.search(r"(?:youtu\.be/|youtube\.com/(?:watch\?v=|live/|shorts/))([A-Za-z0-9_-]{11})", url)
GtPrefixes == <<"youtu.be/", "youtube.com/watch?v=", "youtube.com/live/", "youtube.com/shorts/">>

gt_search(url) ==
    LET Hit(i, k) == /\ StartsWithAt(url, GtPrefixes[k], i)
                     /\ i + Len(GtPrefixes[k]) + IdLen - 1 <= Len(url)
                     /\ AllIdChars(SubSeq(url, i + Len(GtPrefixes[k]),
                                          i + Len(GtPrefixes[k]) + IdLen - 1))
        I == {i \in 1..Len(url) : \E k \in 1..Len(GtPrefixes) : Hit(i, k)}
    IN IF I = {} THEN ""
       ELSE LET i == Min(I)
                k == Min({j \in 1..Len(GtPrefixes) : Hit(i, j)})
            IN SubSeq(url, i + Len(GtPrefixes[k]), i + Len(GtPrefixes[k]) + IdLen - 1)

gt_extract_video_id(url) ==
    IF gt_query_v(url) # "" THEN Return(gt_query_v(url))
    ELSE IF gt_short_link(url) # "" THEN Return(gt_short_link(url))
    ELSE IF gt_path_segment(url) # "" THEN Return(gt_path_segment(url))
    ELSE IF gt_search(url) # "" THEN Return(gt_search(url))
    ELSE Raise("ValueError")

(***************************************************************************)
(* URL inputs: the canonical shapes, ambiguous URLs and non-URLs, over     *)
(* identifier-shaped and malformed candidates.                             *)
(***************************************************************************)
Ids == {"AAAAAAAAAAA", "Tld91M_bcEI", "a-b_c-d_e-f"}
NotIds == {"AAAAAAAAAA", "AAAAAAAAAAAA", "AAAAA.AAAAA"}
Candidates == Ids \cup NotIds

UrlTemplates ==
    { <<"https://www.youtube.com/watch?v=", "">>,
      <<"https://youtu.be/", "">>,
      <<"https://www.youtube.com/shorts/", "">>,
      <<"https://www.youtube.com/live/", "">>,
      <<"https://www.youtube.com/watch/", "">>,
      <<"https://www.youtube.com/embed/", "">>,
      <<"https://www.youtube-nocookie.com/embed/", "">>,
      <<"youtu.be/", "">>,
      <<"https://youtu.be/", "?v=BBBBBBBBBBB">>,
      <<"https://www.youtube.com/live/", "?v=BBBBBBBBBBB">>,
      <<"https://www.youtube.com/watch?list=PLBBBBBBBBBBBBBB&v=", "">>,
      <<"https://www.youtube.com/watch?v=&v=", "&t=10">>,
      <<"https://www.youtube.com/watch?v=", "#BBBBBBBBBBB">>,
      <<"https://tracking-redirect.example/?u=https://youtu.be/", "">>,
      <<"https://www.youtube.com/watch?%76=", "">> }

UrlInputs ==
    {t[1] \o c \o t[2] : t \in UrlTemplates, c \in Candidates}
    \cup {"", "https://example.com/", "https://youtu.be/",
          "https://youtu.be/Tld91M_bcEI?si=vJ5M5t7AbJon_uqK",
          "https://www.youtube.com/watch?v=AAAAA%41AAAAA",
          "https://www.youtube.com/watch?v=a%2Db%5fc-d_e-f",
          "https://www.youtube.com/watch?v=AAAAA+AAAAA",
          "https://www.youtube.com/watch?v=AAAAA%2BAAAAA",
          "https://www.youtube.com/watch?v=AAAAAAAAAAA%0A",
          "https://www.youtube.com/watch?v=AAAAAAAAAA%4",
          "https://youtu.be/AAAAA%41AAAAA",
          "https://youtu.be/AAAAA\tAAAAAA",
          "https://www.youtube.com/shorts/AAAAAAAAAAA\n"}

(***************************************************************************)
(* Language codes and Python's string order (sorted() compares code        *)
(* points).                                                                *)
(***************************************************************************)
OrderedChars == "-0123456789ABCDEFGHIJKLMNOPQRSTUVWXYZ_abcdefghijklmnopqrstuvwxyz"

Ord(c) == FindAny(OrderedChars, {c})

RECURSIVE StrLess(_, _)
StrLess(a, b) ==
    IF b = "" THEN FALSE
    ELSE IF a = "" THEN TRUE
    ELSE IF CharAt(a, 1) = CharAt(b, 1) THEN StrLess(From(a, 2), From(b, 2))
    ELSE Ord(CharAt(a, 1)) < Ord(CharAt(b, 1))

\* sorted(S) of a set of strings
RECURSIVE sorted(_)
sorted(S) ==
    IF S = {} THEN <<>>
    ELSE LET m == CHOOSE x \in S : \A y \in S : x = y \/ StrLess(x, y)
         IN <<m>> \o sorted(S \ {m})

Range(seq) == {seq[i] : i \in 1..Len(seq)}

\* str.strip() of the blanks the inputs contain
RECURSIVE Strip(_)
Strip(s) ==
    IF s = "" THEN s
    ELSE IF CharAt(s, 1) = " " THEN Strip(From(s, 2))
    ELSE IF CharAt(s, Len(s)) = " " THEN Strip(SubSeq(s, 1, Len(s) - 1))
    ELSE s

\* parse_language_preferences: None is the empty list (both are falsy where
\* the result is read, in pick_transcript's `if languages:`).
parse_language_preferences(raw) ==
    IF raw = "" THEN <<>>
    ELSE LET codes == Split(raw, ",")
             stripped == [i \in 1..Len(codes) |-> Strip(codes[i])]
         IN SelectSeq(stripped, NonEmpty)

(***************************************************************************)
(* The collaborator (youtube_transcript_api): transcript descriptors, a    *)
(* video's listing, find_transcript and translate.  A listing holds the    *)
(* manually created transcripts before the generated ones, one per         *)
(* language code in each group, so a code occurs at most twice.            *)
(***************************************************************************)
Codes == {"de", "en", "fr"}
TranslationLanguageLists == {<<>>, <<"fr", "de">>}

NoTranscript ==
    [language_code |-> "", is_translatable |-> FALSE, translation_languages |-> <<>>]

Descriptors ==
    {d \in [language_code : Codes, is_translatable : BOOLEAN,
            translation_languages : TranslationLanguageLists] :
        ~d.is_translatable => d.translation_languages = <<>>}

SeqsUpTo(S, n) == UNION {[1..k -> S] : k \in 0..n}

Listings ==
    {l \in SeqsUpTo(Descriptors, MaxTranscripts) :
        \A c \in Codes : Cardinality({i \in 1..Len(l) : l[i].language_code = c}) <= 2}

\* The listings api.list may return for a video.  Two videos have a known
\* catalogue; any listing is possible for every other video.
VideoB == "BBBBBBBBBBB"
VideoC == "CCCCCCCCCCC"

ListingsOf(video_id) ==
    IF video_id = VideoB
    THEN {<<[language_code |-> "en", is_translatable |-> TRUE,
             translation_languages |-> <<"fr", "de">>]>>}
    ELSE IF video_id = VideoC
    THEN {<<[language_code |-> "de", is_translatable |-> TRUE,
             translation_languages |-> <<>>],
            [language_code |-> "fr", is_translatable |-> FALSE,
             translation_languages |-> <<>>]>>}
    ELSE Listings

\* The faults a collaborator call can raise besides the outcome its listing
\* decides: a ValueError (requests' InvalidURL and JSONDecodeError are
\* ValueErrors) or any other exception.
CollabFaults == {"ValueError", "Exception"}
ListFaults == {"TranscriptsDisabled", "VideoUnavailable"} \cup CollabFaults
NoFault == ""

\* TranscriptList.find_transcript(language_codes): the codes in order, for
\* each the first transcript of the listing with that code; NoTranscript
\* stands for raising NoTranscriptFound.
RECURSIVE find_transcript(_, _)
find_transcript(transcripts, language_codes) ==
    IF language_codes = <<>> THEN NoTranscript
    ELSE LET hits == SelectSeq(transcripts,
                               LAMBDA t : t.language_code = Head(language_codes))
         IN IF hits # <<>> THEN hits[1]
            ELSE find_transcript(transcripts, Tail(language_codes))

\* Transcript.translate(language_code): the translated transcript.
translate(transcript, language_code) ==
    [language_code |-> language_code, is_translatable |-> FALSE,
     translation_languages |-> <<>>]

(***************************************************************************)
(* download_subtitles: collect_available_languages, pick_transcript and    *)
(* the translation step of fetch_transcript_data.  f1, f2 and fault are    *)
(* the faults the collaborator raises at the call, NoFault for none.       *)
(***************************************************************************)
collect_available_languages(transcripts) ==
    [i \in 1..Len(transcripts) |-> transcripts[i].language_code]

Call(op, arg) == [op |-> op, arg |-> arg]

Outcome(raised, transcript, calls, codes) ==
    [raised |-> raised, transcript |-> transcript, calls |-> calls, exc_codes |-> codes]

\* pick_transcript with the fallback list consulted before the preferences
pick_transcript_fallback_first(transcripts, languages, fallback_codes, f1, f2) ==
    LET call2 == Call("find", fallback_codes)
        fb == find_transcript(transcripts, fallback_codes)
    IN IF fallback_codes = <<>>
       THEN Outcome("NoTranscriptFound", NoTranscript, <<>>, <<>>)
       ELSE IF f2 # NoFault THEN Outcome(f2, NoTranscript, <<call2>>, <<>>)
       ELSE Outcome("", fb, <<call2>>, <<>>)

\* pick_transcript with the fallback find given the preferences again
pick_transcript_no_fallback(transcripts, languages, fallback_codes, f1, f2) ==
    LET call1 == Call("find", languages)
        pref == find_transcript(transcripts, languages)
    IN IF f1 # NoFault THEN Outcome(f1, NoTranscript, <<call1>>, <<>>)
       ELSE IF pref # NoTranscript THEN Outcome("", pref, <<call1>>, <<>>)
       ELSE Outcome("NoTranscriptFound", NoTranscript, <<call1, call1>>, <<>>)

\* pick_transcript asking for the preferences a second time after a miss
pick_transcript_retry(transcripts, languages, fallback_codes, f1, f2) ==
    LET call1 == Call("find", languages)
        call2 == Call("find", fallback_codes)
        pref == find_transcript(transcripts, languages)
        fb == find_transcript(transcripts, fallback_codes)
        Fallback(calls) ==
            IF fallback_codes = <<>>
            THEN Outcome("NoTranscriptFound", NoTranscript, calls, <<>>)
            ELSE IF f2 # NoFault
            THEN Outcome(f2, NoTranscript, Append(calls, call2), <<>>)
            ELSE IF fb = NoTranscript
            THEN Outcome("NoTranscriptFound", NoTranscript, Append(calls, call2), <<>>)
            ELSE Outcome("", fb, Append(calls, call2), <<>>)
    IN IF languages # <<>>
       THEN IF f1 # NoFault THEN Outcome(f1, NoTranscript, <<call1>>, <<>>)
            ELSE IF pref # NoTranscript THEN Outcome("", pref, <<call1>>, <<>>)
            ELSE Fallback(<<call1, call1>>)
       ELSE Fallback(<<>>)

pick_transcript(transcripts, languages, fallback_codes, f1, f2) ==
    LET call1 == Call("find", languages)
        call2 == Call("find", fallback_codes)
        pref == find_transcript(transcripts, languages)
        fb == find_transcript(transcripts, fallback_codes)
        Fallback(calls) ==
            IF fallback_codes = <<>>
            THEN Outcome("NoTranscriptFound", NoTranscript, calls, <<>>)
            ELSE IF f2 # NoFault
            THEN Outcome(f2, NoTranscript, Append(calls, call2), <<>>)
            ELSE IF fb = NoTranscript
            THEN Outcome("NoTranscriptFound", NoTranscript, Append(calls, call2), <<>>)
            ELSE Outcome("", fb, Append(calls, call2), <<>>)
    IN IF languages # <<>>
       THEN IF f1 # NoFault THEN Outcome(f1, NoTranscript, <<call1>>, <<>>)
            ELSE IF pref # NoTranscript THEN Outcome("", pref, <<call1>>, <<>>)
            ELSE Fallback(<<call1>>)
       ELSE Fallback(<<>>)

\* the translation step without the replacement of the transcript
translate_step_not_replaced(transcript, translate_to, fault) ==
    LET supported_translations == Range(transcript.translation_languages)
        call == Call("translate", <<translate_to>>)
    IN IF translate_to = "" THEN Outcome("", transcript, <<>>, <<>>)
       ELSE IF ~transcript.is_translatable
       THEN Outcome("NoTranscriptFound", NoTranscript, <<>>, <<>>)
       ELSE IF supported_translations # {} /\ translate_to \notin supported_translations
       THEN Outcome("NoTranscriptFound", NoTranscript, <<>>, sorted(supported_translations))
       ELSE IF fault # NoFault THEN Outcome(fault, NoTranscript, <<call>>, <<>>)
       ELSE Outcome("", transcript, <<call>>, <<>>)

\* the translation step with the targets listed as advertised, unsorted
translate_step_unsorted(transcript, translate_to, fault) ==
    LET supported_translations == Range(transcript.translation_languages)
        call == Call("translate", <<translate_to>>)
    IN IF translate_to = "" THEN Outcome("", transcript, <<>>, <<>>)
       ELSE IF ~transcript.is_translatable
       THEN Outcome("NoTranscriptFound", NoTranscript, <<>>, <<>>)
       ELSE IF supported_translations # {} /\ translate_to \notin supported_translations
       THEN Outcome("NoTranscriptFound", NoTranscript, <<>>, transcript.translation_languages)
       ELSE IF fault # NoFault THEN Outcome(fault, NoTranscript, <<call>>, <<>>)
       ELSE Outcome("", translate(transcript, translate_to), <<call>>, <<>>)

\* fetch_transcript_data, lines 104-115: `if translate_to:` ...
translate_step(transcript, translate_to, fault) ==
    LET supported_translations == Range(transcript.translation_languages)
        call == Call("translate", <<translate_to>>)
    IN IF translate_to = "" THEN Outcome("", transcript, <<>>, <<>>)
       ELSE IF ~transcript.is_translatable
       THEN Outcome("NoTranscriptFound", NoTranscript, <<>>, <<>>)
       ELSE IF supported_translations # {} /\ translate_to \notin supported_translations
       THEN Outcome("NoTranscriptFound", NoTranscript, <<>>, sorted(supported_translations))
       ELSE IF fault # NoFault THEN Outcome(fault, NoTranscript, <<call>>, <<>>)
       ELSE Outcome("", translate(transcript, translate_to), <<call>>, <<>>)

\* main's except clauses with the catch-all placed before NoTranscriptFound
main_except_generic_first(kind) ==
    CASE kind = "ValueError" -> [clause |-> "ValueError", code |-> 1]
      [] kind = "TranscriptsDisabled" -> [clause |-> "TranscriptsDisabled", code |-> 2]
      [] OTHER -> [clause |-> "Exception", code |-> 5]

\* main's except clauses, in order (lines 176-190): the clause that catches an
\* exception of class `kind`, and the exit code it returns.
main_except(kind) ==
    CASE kind = "ValueError" -> [clause |-> "ValueError", code |-> 1]
      [] kind = "TranscriptsDisabled" -> [clause |-> "TranscriptsDisabled", code |-> 2]
      [] kind = "NoTranscriptFound" -> [clause |-> "NoTranscriptFound", code |-> 3]
      [] kind = "VideoUnavailable" -> [clause |-> "VideoUnavailable", code |-> 4]
      [] OTHER -> [clause |-> "Exception", code |-> 5]

\* get_transcript.main's except clauses around get_transcript_text (lines
\* 89-100); main returns None from each, so the process exits with 0.
gt_main_except(kind) ==
    CASE kind = "TranscriptsDisabled" -> [clause |-> "TranscriptsDisabled", code |-> 0]
      [] kind = "NoTranscriptFound" -> [clause |-> "NoTranscriptFound", code |-> 0]
      [] kind = "VideoUnavailable" -> [clause |-> "VideoUnavailable", code |-> 0]
      [] OTHER -> [clause |-> "Exception", code |-> 0]

\* get_transcript_text, lines 39-42: any exception of api.list is replaced by
\* a plain Exception carrying its text.
gt_list_wrap(kind) == "Exception"

(***************************************************************************)
(* Inputs.                                                                 *)
(***************************************************************************)
MainUrls == {"https://youtu.be/AAAAAAAAAAA", "https://example.com/"}
RawLanguageInputs == {"", ",", "en", "es", "en,fr", " fr , en", "es,,de"}
TranslateInputs == {"", "de", "es"}
DefaultOutput == "captions.txt"
OutputPaths == {DefaultOutput, "subs/out.txt"}

\* A Python str and a Python tuple of str, and what a for loop iterates over
\* each: the characters of the str, the items of the tuple.
PyStr(value) == [type |-> "str", value |-> value, items |-> <<>>]
PyTuple(items) == [type |-> "tuple", value |-> "", items |-> items]

py_iter(x) ==
    IF x.type = "str" THEN [i \in 1..Len(x.value) |-> CharAt(x.value, i)] ELSE x.items

\* get_transcript.main: the hard-coded URL, and languages=("en"), which is the
\* str "en" (parentheses without a comma make no tuple); the other values are
\* the tuples a direct caller of get_transcript_text passes.
YOUTUBE_URL == "https://youtu.be/Tld91M_bcEI?si=vJ5M5t7AbJon_uqK"
OUTPUT_FILE == "captions.txt"
GtDefaultLanguages == PyStr("en")
GtLanguageInputs ==
    {GtDefaultLanguages, PyTuple(<<"en">>), PyTuple(<<"fr", "en">>), PyTuple(<<"es">>)}

(***************************************************************************)
(* State: the invocations (one record each: the program, its position,     *)
(* its arguments and locals, the exception in flight, what it returned,    *)
(* and the collaborator calls it made) and the file system.  probe_url,    *)
(* ds_result and gt_result hold an application of the two extractors.      *)
(***************************************************************************)
VARIABLES inv, fs, probe_url, ds_result, gt_result

vars == <<inv, fs, probe_url, ds_result, gt_result>>

NoPayload == [video_id |-> "", language_code |-> ""]
OldPayload == [video_id |-> "old", language_code |-> "old"]
NoExc == [kind |-> "", codes |-> <<>>, at |-> "", cause |-> ""]
Exc(kind, codes, at) == [kind |-> kind, codes |-> codes, at |-> at, cause |-> kind]
Pending == [raised |-> "pending", value |-> ""]

NoLookupFault == [kind |-> "", ncalls |-> 0]

\* languages_arg is the languages argument of get_transcript_text; lookup_fault
\* is the first fault a find of a preferred language raised, with the number of
\* collaborator calls made by then; collab_faulted tells whether any
\* collaborator call raised a fault.
Invocation(prog, url, raw, languages_arg, translate_to, output) ==
    [prog |-> prog, pc |-> "start", url |-> url, raw_languages |-> raw,
     translate_to |-> translate_to, output |-> output, languages |-> <<>>,
     languages_arg |-> languages_arg, lookup_fault |-> NoLookupFault,
     collab_faulted |-> FALSE,
     video_id |-> "", listed |-> FALSE, transcripts |-> <<>>, available_codes |-> <<>>,
     picked |-> NoTranscript, transcript |-> NoTranscript, lang_i |-> 1, fetched |-> NoPayload,
     selected_language |-> "", available_languages |-> <<>>,
     formatted_text |-> NoPayload, exc |-> NoExc, clause |-> "", exit_code |-> -1,
     wrote |-> FALSE, calls |-> <<>>]

DsInputs ==
    {Invocation("ds", u, raw, PyTuple(<<>>), t, o) :
        u \in MainUrls, raw \in RawLanguageInputs, t \in TranslateInputs, o \in OutputPaths}

GtInputs ==
    {Invocation("gt", YOUTUBE_URL, "", l, "", OUTPUT_FILE) : l \in GtLanguageInputs}

\* The working directory holds an earlier captions.txt and no subs directory.
InitFs ==
    [dirs |-> {"."},
     files |-> [o \in OutputPaths |-> IF o = DefaultOutput THEN OldPayload ELSE NoPayload]]

Init ==
    /\ inv \in [{1} -> DsInputs \cup GtInputs]
    /\ fs = InitFs
    /\ probe_url = ""
    /\ ds_result = Pending
    /\ gt_result = Pending

Raised(s, kind, codes, at) == [s EXCEPT !.exc = Exc(kind, codes, at), !.pc = "except"]

Step(p, s) ==
    /\ inv' = [inv EXCEPT ![p] = s]
    /\ UNCHANGED <<probe_url, ds_result, gt_result>>

Faults == {NoFault} \cup CollabFaults

(***************************************************************************)
(* download_subtitles.main                                                 *)
(***************************************************************************)
\* lines 163-170: parse_args, parse_language_preferences, extract_video_id
DsStart ==
    \E p \in DOMAIN inv :
    LET s == inv[p]
        languages == parse_language_preferences(s.raw_languages)
        r == extract_video_id(s.url)
        s1 == [s EXCEPT !.languages = languages]
    IN /\ s.prog = "ds" /\ s.pc = "start"
       /\ Step(p, IF r.raised # "" THEN Raised(s1, r.raised, <<>>, "extract")
                  ELSE [s1 EXCEPT !.video_id = r.value, !.pc = "list"])
       /\ UNCHANGED fs

\* fetch_transcript_data, lines 96-101: api.list, the empty check and
\* collect_available_languages
DsList ==
    \E p \in DOMAIN inv :
    LET s == inv[p]
        s1 == [s EXCEPT !.calls = Append(@, Call("list", <<>>))]
    IN /\ s.prog = "ds" /\ s.pc = "list"
       /\ \/ \E f \in ListFaults :
                Step(p, Raised([s1 EXCEPT !.collab_faulted = TRUE], f, <<>>, "list"))
          \/ \E l \in ListingsOf(s.video_id) :
                Step(p, IF l = <<>>
                        THEN Raised([s1 EXCEPT !.listed = TRUE],
                                    "NoTranscriptFound", <<>>, "empty")
                        ELSE [s1 EXCEPT !.listed = TRUE, !.transcripts = l,
                                        !.available_codes = collect_available_languages(l),
                                        !.pc = "pick"])
       /\ UNCHANGED fs

\* fetch_transcript_data, line 102: pick_transcript
DsPick ==
    \E p \in DOMAIN inv :
    LET s == inv[p]
    IN /\ s.prog = "ds" /\ s.pc = "pick"
       /\ \E f1 \in Faults, f2 \in Faults :
            LET r == pick_transcript(s.transcripts, s.languages, s.available_codes, f1, f2)
                s1 == [s EXCEPT !.calls = @ \o r.calls,
                                !.collab_faulted = r.raised \in CollabFaults,
                                !.lookup_fault =
                                    IF s.languages # <<>> /\ f1 # NoFault
                                    THEN [kind |-> f1, ncalls |-> Len(s.calls) + 1]
                                    ELSE @]
            IN Step(p, IF r.raised # "" THEN Raised(s1, r.raised, r.exc_codes, "pick")
                       ELSE [s1 EXCEPT !.picked = r.transcript, !.transcript = r.transcript,
                                       !.pc = "translate"])
       /\ UNCHANGED fs

\* fetch_transcript_data, lines 104-115
DsTranslate ==
    \E p \in DOMAIN inv :
    LET s == inv[p]
    IN /\ s.prog = "ds" /\ s.pc = "translate"
       /\ \E fault \in Faults :
            LET r == translate_step(s.transcript, s.translate_to, fault)
                s1 == [s EXCEPT !.calls = @ \o r.calls,
                                !.collab_faulted = r.raised \in CollabFaults]
                at == IF r.calls = <<>> THEN "translate_check" ELSE "translate"
            IN Step(p, IF r.raised # "" THEN Raised(s1, r.raised, r.exc_codes, at)
                       ELSE [s1 EXCEPT !.transcript = r.transcript, !.pc = "fetch"])
       /\ UNCHANGED fs

\* fetch_transcript_data, lines 117-118, and the unpacking of its result in
\* main, line 168
DsFetch ==
    \E p \in DOMAIN inv :
    LET s == inv[p]
        s1 == [s EXCEPT !.calls = Append(@, Call("fetch", <<s.transcript.language_code>>))]
    IN /\ s.prog = "ds" /\ s.pc = "fetch"
       /\ \E fault \in Faults :
            Step(p, IF fault # NoFault
                    THEN Raised([s1 EXCEPT !.collab_faulted = TRUE], fault, <<>>, "fetch")
                    ELSE [s1 EXCEPT
                            !.fetched = [video_id |-> s.video_id,
                                         language_code |-> s.transcript.language_code],
                            !.selected_language = s.transcript.language_code,
                            !.available_languages = s.available_codes,
                            !.pc = "format"])
       /\ UNCHANGED fs

\* main, line 175: format_transcript_text
DsFormat ==
    \E p \in DOMAIN inv :
    LET s == inv[p]
    IN /\ s.prog = "ds" /\ s.pc = "format"
       /\ \E fault \in Faults :
            Step(p, IF fault # NoFault
                    THEN Raised([s EXCEPT !.collab_faulted = TRUE], fault, <<>>, "format")
                    ELSE [s EXCEPT !.formatted_text = s.fetched, !.pc = "mkdir"])
       /\ UNCHANGED fs

\* main, lines 176-190
DsExcept ==
    \E p \in DOMAIN inv :
    LET s == inv[p]
        h == main_except(s.exc.kind)
    IN /\ s.prog = "ds" /\ s.pc = "except"
       /\ Step(p, [s EXCEPT !.clause = h.clause, !.exit_code = h.code, !.pc = "done"])
       /\ UNCHANGED fs

RECURSIVE Parent(_)
\* Path(output).parent
Parent(path) ==
    IF FindAny(path, {"/"}) = 0 THEN "."
    ELSE IF CharAt(path, Len(path)) = "/" THEN SubSeq(path, 1, Len(path) - 1)
    ELSE Parent(SubSeq(path, 1, Len(path) - 1))

\* An exception raised outside main's try block leaves main; the interpreter
\* prints the traceback and the process exits with status 1.
Uncaught(s, kind, at) ==
    [s EXCEPT !.exc = Exc(kind, <<>>, at), !.clause = "uncaught",
              !.exit_code = 1, !.pc = "done"]

\* A file-system call succeeds or raises OSError.
FsFaults == {NoFault, "OSError"}

\* A file that was opened for writing and not written
EmptyPayload == [video_id |-> "", language_code |-> "empty"]

\* main, lines 192-193
DsMkdir ==
    \E p \in DOMAIN inv :
    LET s == inv[p]
    IN /\ s.prog = "ds" /\ s.pc = "mkdir"
       /\ \E fault \in FsFaults :
            IF fault # NoFault
            THEN /\ UNCHANGED fs
                 /\ Step(p, Uncaught(s, fault, "mkdir"))
            ELSE /\ fs' = [fs EXCEPT !.dirs = @ \cup {Parent(s.output)}]
                 /\ Step(p, [s EXCEPT !.pc = "write"])

\* main, lines 194-204; a failing write_text leaves the file as it was (open
\* failed) or empty (open truncated it and the write failed)
DsWrite ==
    \E p \in DOMAIN inv :
    LET s == inv[p]
    IN /\ s.prog = "ds" /\ s.pc = "write"
       /\ \E fault \in FsFaults :
            IF fault # NoFault
            THEN /\ \/ UNCHANGED fs
                    \/ fs' = [fs EXCEPT !.files[s.output] = EmptyPayload]
                 /\ Step(p, Uncaught(s, fault, "write"))
            ELSE /\ fs' = [fs EXCEPT !.files[s.output] = s.formatted_text]
                 /\ Step(p, [s EXCEPT !.wrote = TRUE, !.exit_code = 0, !.pc = "done"])

(***************************************************************************)
(* get_transcript.main and get_transcript_text                             *)
(***************************************************************************)
\* One try block of get_transcript_text (lines 46-51, 54-60, 63-68):
\* find_transcript(codes), translate(target) when target is given, fetch;
\* `except Exception: pass` swallows whatever any of them raises.  translate
\* raises on a transcript that is not translatable.
gt_try(transcripts, codes, target, f1, f2, f3) ==
    LET t == find_transcript(transcripts, codes)
        found == f1 = NoFault /\ t # NoTranscript
        translated == target = "" \/ (t.is_translatable /\ f2 = NoFault)
        final == IF target = "" THEN t ELSE translate(t, target)
        calls == <<Call("find", codes)>>
                 \o (IF found /\ target # "" THEN <<Call("translate", <<target>>)>> ELSE <<>>)
                 \o (IF found /\ translated
                     THEN <<Call("fetch", <<final.language_code>>)>> ELSE <<>>)
        faulted == \/ f1 # NoFault
                   \/ found /\ target # "" /\ t.is_translatable /\ f2 # NoFault
                   \/ found /\ translated /\ f3 # NoFault
    IN [ok |-> found /\ translated /\ f3 = NoFault,
        language_code |-> final.language_code,
        calls |-> calls,
        faulted |-> faulted]

\* main, lines 78-85
GtStart ==
    \E p \in DOMAIN inv :
    LET s == inv[p]
        r == gt_extract_video_id(s.url)
    IN /\ s.prog = "gt" /\ s.pc = "start"
       /\ Step(p, IF r.raised # ""
                  THEN [s EXCEPT !.exc = Exc(r.raised, <<>>, "extract"),
                                 !.clause = "Exception", !.exit_code = 0, !.pc = "done"]
                  ELSE [s EXCEPT !.video_id = r.value, !.pc = "list"])
       /\ UNCHANGED fs

\* get_transcript_text, lines 37-42
GtList ==
    \E p \in DOMAIN inv :
    LET s == inv[p]
        s1 == [s EXCEPT !.calls = Append(@, Call("list", <<>>))]
    IN /\ s.prog = "gt" /\ s.pc = "list"
       /\ \/ \E f \in ListFaults :
                Step(p, [s1 EXCEPT !.exc = [kind |-> gt_list_wrap(f), codes |-> <<>>,
                                            at |-> "list", cause |-> f],
                                   !.collab_faulted = TRUE,
                                   !.pc = "except"])
          \/ \E l \in ListingsOf(s.video_id) :
                Step(p, [s1 EXCEPT !.listed = TRUE, !.transcripts = l,
                                   !.available_codes = collect_available_languages(l),
                                   !.languages = py_iter(s.languages_arg),
                                   !.pc = IF py_iter(s.languages_arg) = <<>>
                                          THEN "fallback_translate" ELSE "loop"])
       /\ UNCHANGED fs

Returned(s, r) ==
    [s EXCEPT !.calls = @ \o r.calls,
              !.collab_faulted = @ \/ r.faulted,
              !.selected_language = r.language_code,
              !.formatted_text = [video_id |-> s.video_id, language_code |-> r.language_code],
              !.pc = "write"]

\* get_transcript_text, lines 45-51: one iteration of the loop
GtTryLanguage ==
    \E p \in DOMAIN inv :
    LET s == inv[p]
    IN /\ s.prog = "gt" /\ s.pc = "loop"
       /\ \E f1 \in Faults, f3 \in Faults :
            LET r == gt_try(s.transcripts, <<s.languages[s.lang_i]>>, "", f1, NoFault, f3)
            IN Step(p, IF r.ok THEN Returned(s, r)
                       ELSE [s EXCEPT !.calls = @ \o r.calls,
                                      !.collab_faulted = @ \/ r.faulted,
                                      !.lookup_fault =
                                          IF f1 # NoFault /\ @ = NoLookupFault
                                          THEN [kind |-> f1, ncalls |-> Len(s.calls) + 1]
                                          ELSE @,
                                      !.lang_i = @ + 1,
                                      !.pc = IF s.lang_i = Len(s.languages)
                                             THEN "fallback_translate" ELSE "loop"])
       /\ UNCHANGED fs

\* get_transcript_text, lines 54-60
GtFallbackTranslate ==
    \E p \in DOMAIN inv :
    LET s == inv[p]
    IN /\ s.prog = "gt" /\ s.pc = "fallback_translate"
       /\ \E f1 \in Faults, f2 \in Faults, f3 \in Faults :
            LET r == gt_try(s.transcripts, <<>>, "zh-Hant", f1, f2, f3)
            IN Step(p, IF r.ok THEN Returned(s, r)
                       ELSE [s EXCEPT !.calls = @ \o r.calls,
                                      !.collab_faulted = @ \/ r.faulted,
                                      !.pc = "fallback_any"])
       /\ UNCHANGED fs

\* get_transcript_text, lines 63-71
GtFallbackAny ==
    \E p \in DOMAIN inv :
    LET s == inv[p]
    IN /\ s.prog = "gt" /\ s.pc = "fallback_any"
       /\ \E f1 \in Faults, f3 \in Faults :
            LET r == gt_try(s.transcripts, <<>>, "", f1, NoFault, f3)
            IN Step(p, IF r.ok THEN Returned(s, r)
                       ELSE Raised([s EXCEPT !.calls = @ \o r.calls,
                                             !.collab_faulted = @ \/ r.faulted],
                                   "Exception", <<>>, "final"))
       /\ UNCHANGED fs

\* main, lines 89-100
GtExcept ==
    \E p \in DOMAIN inv :
    LET s == inv[p]
        h == gt_main_except(s.exc.kind)
    IN /\ s.prog = "gt" /\ s.pc = "except"
       /\ Step(p, [s EXCEPT !.clause = h.clause, !.exit_code = h.code, !.pc = "done"])
       /\ UNCHANGED fs

\* main, lines 102-104; open(OUTPUT_FILE, "w") and f.write are outside the
\* try blocks
GtWrite ==
    \E p \in DOMAIN inv :
    LET s == inv[p]
    IN /\ s.prog = "gt" /\ s.pc = "write"
       /\ \E fault \in FsFaults :
            IF fault # NoFault
            THEN /\ \/ UNCHANGED fs
                    \/ fs' = [fs EXCEPT !.files[OUTPUT_FILE] = EmptyPayload]
                 /\ Step(p, Uncaught(s, fault, "write"))
            ELSE /\ fs' = [fs EXCEPT !.files[OUTPUT_FILE] = s.formatted_text]
                 /\ Step(p, [s EXCEPT !.wrote = TRUE, !.exit_code = 0, !.pc = "done"])

Next ==
    \/ DsStart \/ DsList \/ DsPick \/ DsTranslate \/ DsFetch
    \/ DsFormat \/ DsExcept \/ DsMkdir \/ DsWrite
    \/ GtStart \/ GtList \/ GtTryLanguage \/ GtFallbackTranslate
    \/ GtFallbackAny \/ GtExcept \/ GtWrite

Spec == Init /\ [][Next]_vars

\* The steps of download_subtitles.main
NextDs ==
    \/ DsStart \/ DsList \/ DsPick \/ DsTranslate \/ DsFetch
    \/ DsFormat \/ DsExcept \/ DsMkdir \/ DsWrite

(***************************************************************************)
(* One invocation of download_subtitles.main under fairness:               *)
(* fetch_transcript_data is synchronous, sequential code, so a collaborator *)
(* call it has reached is made, and returns or raises.  The preferences    *)
(* are none, a list with an available code, and a list that may miss.      *)
(***************************************************************************)
FairRawLanguageInputs == {"", "en,fr", "es"}

FairInputs ==
    {Invocation("ds", u, raw, PyTuple(<<>>), t, DefaultOutput) :
        u \in MainUrls, raw \in FairRawLanguageInputs, t \in TranslateInputs}

InitFair ==
    /\ inv \in [{1} -> FairInputs]
    /\ fs = InitFs
    /\ probe_url = ""
    /\ ds_result = Pending
    /\ gt_result = Pending

SpecFair ==
    /\ InitFair /\ [][NextDs]_vars
    /\ WF_vars(DsList) /\ WF_vars(DsPick) /\ WF_vars(DsTranslate) /\ WF_vars(DsFetch)

(***************************************************************************)
(* Two invocations of download_subtitles.main running in parallel on one   *)
(* file system, their steps interleaved in every order.                    *)
(***************************************************************************)
ParUrls == {"https://youtu.be/" \o VideoB, "https://youtu.be/" \o VideoC}
ParTranslateInputs == {"", "de"}

ParInputs ==
    {Invocation("ds", u, "", PyTuple(<<>>), t, o) :
        u \in ParUrls, t \in ParTranslateInputs, o \in OutputPaths}

InitPar ==
    /\ inv \in [{1, 2} -> ParInputs]
    /\ inv[1].url = "https://youtu.be/" \o VideoB
    /\ fs = InitFs
    /\ probe_url = ""
    /\ ds_result = Pending
    /\ gt_result = Pending

SpecPar == InitPar /\ [][NextDs]_vars

(***************************************************************************)
(* The two extractors applied to one URL.                                  *)
(***************************************************************************)
InitUrl ==
    /\ inv = <<>>
    /\ fs = InitFs
    /\ probe_url \in UrlInputs
    /\ ds_result = Pending
    /\ gt_result = Pending

ApplyDs ==
    /\ ds_result = Pending
    /\ ds_result' = extract_video_id(probe_url)
    /\ UNCHANGED <<inv, fs, probe_url, gt_result>>

ApplyGt ==
    /\ gt_result = Pending
    /\ gt_result' = gt_extract_video_id(probe_url)
    /\ UNCHANGED <<inv, fs, probe_url, ds_result>>

NextUrl == ApplyDs \/ ApplyGt

SpecUrl == InitUrl /\ [][NextUrl]_vars

(***************************************************************************)
(* Properties.                                                             *)
(***************************************************************************)
DsInvocations == {p \in DOMAIN inv : inv[p].prog = "ds"}
GtInvocations == {p \in DOMAIN inv : inv[p].prog = "gt"}

CallsOf(s, op) == SelectSeq(s.calls, LAMBDA c : c.op = op)

\* pick_transcript has returned or raised
AfterPick(s) == s.listed /\ s.transcripts # <<>> /\ s.pc \notin {"start", "list", "pick"}

\* the translation step has returned or raised
AfterTranslate(s) == s.picked # NoTranscript /\ s.pc \notin {"pick", "translate"}

Available(s) == {s.transcripts[i].language_code : i \in 1..Len(s.transcripts)}

PreferredAvailable(s) == {i \in 1..Len(s.languages) : s.languages[i] \in Available(s)}

\* C1: with a non-empty preference list of which some code is available,
\* pick_transcript selects the transcript of the earliest available entry of
\* the list (or the find itself faults); it makes one find call, with the
\* preferences, and never one with the fallback list.
C1_PreferredOrder ==
    \A p \in DsInvocations :
        LET s == inv[p]
        IN (AfterPick(s) /\ PreferredAvailable(s) # {}) =>
              /\ CallsOf(s, "find") = <<Call("find", s.languages)>>
              /\ \/ s.exc.at = "pick" /\ s.exc.kind \in CollabFaults
                 \/ s.picked.language_code = s.languages[Min(PreferredAvailable(s))]

C1_Witness ==
    \E p \in DsInvocations :
        /\ AfterPick(inv[p])
        /\ inv[p].languages = <<"en", "fr">>
        /\ collect_available_languages(inv[p].transcripts) = <<"fr", "de">>
        /\ inv[p].picked.language_code = "fr"

\* C2: on a video exposing a transcript, with no preferences or none of them
\* available, pick_transcript does not fail with NoTranscriptFound: it asks
\* for the fallback list, which is the listing's codes in the listing's order,
\* and selects the listing's first transcript (or the find itself faults).
C2_FallbackFirstListed ==
    \A p \in DsInvocations :
        LET s == inv[p]
            finds == CallsOf(s, "find")
        IN (AfterPick(s) /\ PreferredAvailable(s) = {}) =>
              \/ s.exc.at = "pick" /\ s.exc.kind \in CollabFaults
              \/ /\ s.picked = s.transcripts[1]
                 /\ finds[Len(finds)].arg =
                        [i \in 1..Len(s.transcripts) |-> s.transcripts[i].language_code]
                 /\ Range(finds[Len(finds)].arg) = Available(s)

C2_Witness ==
    \E p \in DsInvocations :
        /\ AfterPick(inv[p])
        /\ inv[p].languages = <<"es">>
        /\ collect_available_languages(inv[p].transcripts) = <<"de", "fr">>
        /\ inv[p].picked.language_code = "de"
        /\ Len(CallsOf(inv[p], "find")) = 2

\* fetch_transcript_data has returned its result to main
Succeeded(s) == s.pc \in {"format", "mkdir", "write"} \/ (s.pc = "done" /\ s.exit_code = 0)

\* C3: in every result fetch_transcript_data returns, the language code is
\* the translation target when one was requested, and one of the returned
\* available codes otherwise.
C3_ResultLanguage ==
    \A p \in DsInvocations :
        LET s == inv[p]
        IN (Succeeded(s) \/ (s.exc.at = "format")) =>
              IF s.translate_to # "" THEN s.selected_language = s.translate_to
              ELSE s.selected_language \in Range(s.available_languages)

C3_Witness ==
    \E p \in DsInvocations :
        /\ Succeeded(inv[p])
        /\ inv[p].translate_to = "de"
        /\ inv[p].picked.language_code = "en"
        /\ inv[p].selected_language = "de"
        /\ "de" \notin Range(inv[p].available_languages)

Ascending(codes) == \A i, j \in 1..Len(codes) : i < j => StrLess(codes[i], codes[j])

\* C4: with a translation target, a picked transcript that is not
\* translatable fails with NoTranscriptFound; one that advertises targets
\* without the requested one fails with NoTranscriptFound listing exactly the
\* advertised targets in ascending order; neither makes a translate or fetch
\* call.  A translate call is made only with the target advertised or nothing
\* advertised, and past it the transcript is the translated one.
C4_TranslationChecks ==
    \A p \in DsInvocations :
        LET s == inv[p]
            targets == Range(s.picked.translation_languages)
            refused == /\ s.exc.kind = "NoTranscriptFound"
                       /\ s.exc.at = "translate_check"
                       /\ CallsOf(s, "translate") = <<>>
                       /\ CallsOf(s, "fetch") = <<>>
        IN (AfterTranslate(s) /\ s.translate_to # "") =>
              /\ ~s.picked.is_translatable => refused
              /\ (s.picked.is_translatable /\ targets # {} /\ s.translate_to \notin targets) =>
                    /\ refused
                    /\ Range(s.exc.codes) = targets
                    /\ Len(s.exc.codes) = Cardinality(targets)
                    /\ Ascending(s.exc.codes)
              /\ CallsOf(s, "translate") # <<>> =>
                    /\ s.picked.is_translatable
                    /\ s.translate_to \in targets \/ targets = {}
              /\ s.exc.at \notin {"translate_check", "translate"} =>
                    /\ CallsOf(s, "translate") = <<Call("translate", <<s.translate_to>>)>>
                    /\ s.transcript.language_code = s.translate_to

C4_Witness ==
    \E p \in DsInvocations :
        /\ AfterTranslate(inv[p])
        /\ inv[p].translate_to = "es"
        /\ inv[p].picked.translation_languages = <<"fr", "de">>
        /\ inv[p].exc.kind = "NoTranscriptFound"
        /\ inv[p].exc.codes = <<"de", "fr">>
        /\ inv[p].pc = "done"

\* C5: a listing that succeeds with zero transcripts makes
\* fetch_transcript_data raise NoTranscriptFound with list as its only
\* collaborator call, and main return 3 from its NoTranscriptFound clause.
C5_EmptyListing ==
    \A p \in DsInvocations :
        LET s == inv[p]
        IN (s.listed /\ s.transcripts = <<>>) =>
              /\ s.exc.kind = "NoTranscriptFound"
              /\ s.calls = <<Call("list", <<>>)>>
              /\ s.pc \in {"except", "done"}
              /\ s.pc = "done" => (s.exit_code = 3 /\ s.clause = "NoTranscriptFound")

C5_Witness ==
    \E p \in DsInvocations :
        /\ inv[p].listed /\ inv[p].transcripts = <<>>
        /\ inv[p].pc = "done" /\ inv[p].exit_code = 3

\* C6: a TranscriptsDisabled or VideoUnavailable raised by the collaborator's
\* list call leaves the selector (fetch_transcript_data as well as
\* get_transcript_text) as that same kind, with list as the only collaborator
\* call, and is caught by the caller's except clause of that kind.
C6_ListFailureKind ==
    \A p \in DOMAIN inv :
        LET s == inv[p]
        IN (s.exc.at = "list" /\ s.exc.cause \in {"TranscriptsDisabled", "VideoUnavailable"}) =>
              /\ s.exc.kind = s.exc.cause
              /\ s.calls = <<Call("list", <<>>)>>
              /\ s.pc = "done" => s.clause = s.exc.cause

\* C7: once the listing has succeeded, download_subtitles hands the available
\* language codes to its caller on every outcome: in the result on success,
\* and otherwise in the error, which carries the available codes or, for a
\* failure of the translation checks, the supported translation targets.
C7_AvailableAlwaysSurfaced ==
    \A p \in DsInvocations :
        LET s == inv[p]
            codes == [i \in 1..Len(s.transcripts) |-> s.transcripts[i].language_code]
        IN (s.listed /\ s.pc = "done") =>
              IF s.exit_code = 0 THEN s.available_languages = codes
              ELSE \/ s.exc.codes = codes
                   \/ /\ s.exc.at = "translate_check"
                      /\ Range(s.exc.codes) = Range(s.picked.translation_languages)

\* C8: main's exit code is 0 exactly when nothing failed, 1 exactly when
\* extract_video_id failed, 2, 3 and 4 exactly for TranscriptsDisabled,
\* NoTranscriptFound and VideoUnavailable, and 5 exactly for any other
\* failure.
C8_ExitCodeByOutcome ==
    \A p \in DsInvocations :
        LET s == inv[p]
            named == {"TranscriptsDisabled", "NoTranscriptFound", "VideoUnavailable"}
        IN s.pc = "done" =>
              /\ s.exit_code = 0 <=> s.exc = NoExc
              /\ s.exit_code = 1 <=> s.exc.at = "extract"
              /\ s.exit_code = 2 <=> s.exc.kind = "TranscriptsDisabled"
              /\ s.exit_code = 3 <=> s.exc.kind = "NoTranscriptFound"
              /\ s.exit_code = 4 <=> s.exc.kind = "VideoUnavailable"
              /\ s.exit_code = 5 <=>
                    (s.exc # NoExc /\ s.exc.at # "extract" /\ s.exc.kind \notin named)

\* C9: a failure of the collaborator's fetch in fetch_transcript_data ends
\* main with exit code 5, never 1, 2, 3 or 4, and fetch is the last
\* collaborator call, made once.
C9_FetchFailureUnrecoverable ==
    \A p \in DsInvocations :
        LET s == inv[p]
        IN (s.exc.at = "fetch" /\ s.pc = "done") =>
              /\ s.exit_code = 5
              /\ Len(CallsOf(s, "fetch")) = 1
              /\ s.calls[Len(s.calls)].op = "fetch"

\* The result of the first rule, in the order short link, query parameter v,
\* /watch|/live|/shorts path segment, substring search, that yields an id.
FirstApplicableRule(url) ==
    LET yields == <<ds_short_link(url), ds_query_v(url), ds_path_segment(url), ds_search(url)>>
        hits == {i \in 1..4 : yields[i] # ""}
    IN IF hits = {} THEN Raise("ValueError") ELSE Return(yields[Min(hits)])

\* C10: extract_video_id, in download_subtitles.py and in get_transcript.py,
\* returns for every URL what the first applicable rule returns, in the order
\* short link, query parameter v, path segment, substring search of the URL.
C10_RuleOrder ==
    /\ ds_result # Pending => ds_result = FirstApplicableRule(probe_url)
    /\ gt_result # Pending => gt_result = FirstApplicableRule(probe_url)

CanonicalShapes ==
    {"https://www.youtube.com/watch?v=", "https://youtu.be/",
     "https://www.youtube.com/shorts/", "https://www.youtube.com/live/"}

\* C11: for an 11-character identifier X, both extract_video_id functions
\* return exactly X on https://www.youtube.com/watch?v=X, https://youtu.be/X,
\* https://www.youtube.com/shorts/X and https://www.youtube.com/live/X.
C11_CanonicalShapes ==
    \A X \in Ids, shape \in CanonicalShapes :
        probe_url = shape \o X =>
            /\ ds_result # Pending => ds_result = Return(X)
            /\ gt_result # Pending => gt_result = Return(X)

C11_Witness ==
    /\ probe_url = "https://www.youtube.com/shorts/a-b_c-d_e-f"
    /\ ds_result = Return("a-b_c-d_e-f")
    /\ gt_result = Return("a-b_c-d_e-f")

\* s holds 11 consecutive identifier characters
HasIdSubstring(s) ==
    \E i \in 1..(Len(s) - IdLen + 1) :
        \A j \in i..(i + IdLen - 1) : CharAt(s, j) \in Upper \cup Lower \cup Digit \cup {"_", "-"}

\* extract_video_id returned 11 identifier characters or raised ValueError
IdOrValueError(r) ==
    \/ r = Raise("ValueError")
    \/ /\ r.raised = ""
       /\ Len(r.value) = IdLen
       /\ HasIdSubstring(r.value)

\* C12: download_subtitles.extract_video_id returns a string of exactly 11
\* identifier characters or raises ValueError, and it raises whenever the URL
\* holds no 11-character identifier-shaped substring.
C12_IdOrInvalid ==
    ds_result # Pending =>
        /\ IdOrValueError(ds_result)
        /\ ~HasIdSubstring(probe_url) => ds_result = Raise("ValueError")

\* C12, amended: download_subtitles.extract_video_id returns a string of
\* exactly 11 identifier characters or raises ValueError, and it raises
\* whenever neither the URL, less the tabs and line breaks the URL parser
\* drops, holds an 11-character identifier-shaped substring, nor the first
\* value of its query parameter v, decoded, is 11 identifier characters.
C12_IdOrInvalidDecoded ==
    ds_result # Pending =>
        LET vs == parse_qs_values(urlparse(probe_url).query, "v")
            decoded == IF Len(vs) = 0 THEN "" ELSE vs[1]
        IN /\ IdOrValueError(ds_result)
           /\ (/\ ~HasIdSubstring(Remove(probe_url, UnsafeUrlChars))
               /\ ~(Len(decoded) = IdLen /\ HasIdSubstring(decoded))) =>
                 ds_result = Raise("ValueError")

C12_Witness ==
    /\ probe_url = "https://www.youtube.com/watch?v=AAAAA+AAAAA"
    /\ ds_result = Raise("ValueError")

\* C19: the two extract_video_id functions agree on every URL: both raise, or
\* both return the same video id.
C19_ExtractorsEquivalent ==
    (ds_result # Pending /\ gt_result # Pending) => ds_result = gt_result

\* C13: a fault, other than a miss, that a find of a preferred language raises
\* leaves the selector as the invocation's error, and no collaborator call
\* follows it: neither a lookup of the next language nor a fallback.
C13_OnlyMissFallsBack ==
    \A p \in DOMAIN inv :
        LET s == inv[p]
        IN s.lookup_fault # NoLookupFault =>
              /\ s.exc.kind = s.lookup_fault.kind
              /\ Len(s.calls) = s.lookup_fault.ncalls

\* The languages get_transcript_text was asked for, as whole codes
Requested(s) ==
    IF s.languages_arg.type = "str" THEN <<s.languages_arg.value>> ELSE s.languages_arg.items

RequestedAvailable(s) == {i \in 1..Len(Requested(s)) : Requested(s)[i] \in Available(s)}

\* C14: when no requested language is available, the listing holds a
\* transcript and no collaborator call faults, get_transcript_text does not
\* end in its final 'no subtitles' error: it returns the text of one of the
\* listed transcripts or of its zh-Hant translation.
C14_FallbackFindsAvailable ==
    \A p \in GtInvocations :
        LET s == inv[p]
        IN (/\ s.listed /\ s.transcripts # <<>>
            /\ RequestedAvailable(s) = {}
            /\ ~s.collab_faulted
            /\ s.pc \in {"except", "write", "done"}) =>
              /\ s.exc.at # "final"
              /\ s.formatted_text # NoPayload
              /\ s.selected_language \in Available(s) \cup {"zh-Hant"}

\* C15: get_transcript_text looks up the requested languages one whole code at
\* a time, in the given order, and with no collaborator fault returns the text
\* of the first requested language that is available; with the default
\* argument that language is 'en'.
C15_WholeCodesInOrder ==
    \A p \in GtInvocations :
        LET s == inv[p]
            lookups == SelectSeq(s.calls, LAMBDA c : c.op = "find" /\ c.arg # <<>>)
        IN /\ Len(lookups) <= Len(Requested(s))
           /\ \A i \in 1..Len(lookups) : lookups[i].arg = <<Requested(s)[i]>>
           /\ (/\ s.listed /\ RequestedAvailable(s) # {}
               /\ ~s.collab_faulted
               /\ s.pc \in {"except", "write", "done"}) =>
                 /\ s.formatted_text # NoPayload
                 /\ s.selected_language = Requested(s)[Min(RequestedAvailable(s))]

Rank(op) ==
    CASE op = "list" -> 1
      [] op = "find" -> 2
      [] op = "translate" -> 3
      [] op = "fetch" -> 4

\* The collaborator calls of fetch_transcript_data so far are a prefix of
\* list, find, (find), (translate), fetch.
CallOrder(s) ==
    /\ \A i, j \in 1..Len(s.calls) : i < j => Rank(s.calls[i].op) <= Rank(s.calls[j].op)
    /\ s.calls # <<>> => s.calls[1].op = "list"
    /\ Len(CallsOf(s, "list")) <= 1
    /\ Len(CallsOf(s, "find")) <= 2
    /\ Len(CallsOf(s, "translate")) <= 1
    /\ Len(CallsOf(s, "fetch")) <= 1
    /\ CallsOf(s, "translate") # <<>> => s.translate_to # ""
    /\ CallsOf(s, "fetch") # <<>> =>
          /\ CallsOf(s, "find") # <<>>
          /\ s.translate_to # "" => CallsOf(s, "translate") # <<>>
    /\ Len(CallsOf(s, "find")) = 2 =>
          CallsOf(s, "find") = <<Call("find", s.languages), Call("find", s.available_codes)>>

FetchTranscriptDataPlaces == {"list", "empty", "pick", "translate_check", "translate", "fetch"}

\* fetch_transcript_data has returned or raised
FetchTranscriptDataEnded(s) == s.pc \in {"format", "mkdir", "write", "except", "done"}

\* C16: in fetch_transcript_data the collaborator calls come in the order list,
\* find (at most twice), translate (only with a target), fetch, each of list,
\* translate and fetch at most once; a result and a failure exclude each
\* other, no call follows a failure and a failure is never replaced; and
\* every invocation of fetch_transcript_data ends, returning or raising.
C16_Sequential ==
    /\ [](\A p \in DsInvocations :
            /\ CallOrder(inv[p])
            /\ ~(inv[p].fetched # NoPayload /\ inv[p].exc.at \in FetchTranscriptDataPlaces))
    /\ [][\A p \in DsInvocations :
            inv[p].exc # NoExc => /\ inv'[p].calls = inv[p].calls
                                  /\ inv'[p].exc = inv[p].exc]_vars
    /\ (\E p \in DsInvocations : inv[p].pc = "list")
          ~> (\A p \in DsInvocations : FetchTranscriptDataEnded(inv[p]))

C16_Witness ==
    \E p \in DsInvocations :
        /\ inv[p].pc = "done" /\ inv[p].exit_code = 0
        /\ Len(inv[p].calls) = 5
        /\ [i \in 1..5 |-> inv[p].calls[i].op] = <<"list", "find", "find", "translate", "fetch">>

\* C17: with two invocations running in parallel, an invocation that has
\* returned 0 has left in its output file what it would have left running
\* alone, its own formatted transcript, whatever the other invocation does.
C17_ParallelAsAlone ==
    \A p \in DOMAIN inv :
        (inv[p].pc = "done" /\ inv[p].wrote) =>
            fs.files[inv[p].output] = inv[p].formatted_text

\* C18: download_subtitles.main has changed the file system (created the
\* parent directory, written the output file) if and only if it ends with
\* exit code 0, and every change comes after formatting has succeeded.
C18_WriteIffSuccess ==
    \A p \in DsInvocations :
        LET s == inv[p]
        IN /\ s.pc = "done" => (fs # InitFs <=> s.exit_code = 0)
           /\ fs # InitFs => (s.pc \in {"write", "done"} /\ s.formatted_text # NoPayload)

====
